---- MODULE Spec2Model ----
(***************************************************************************)
(* Model of vot/experiment/__init__.py: the Experiment base class          *)
(* (transform, _get_runtime, log) and the run_experiment loop with its     *)
(* EvaluationProgress reporter.                                            *)
(*                                                                         *)
(* The specifications share the variables:                                 *)
(*   Spec          run_experiment over a batch of sequences                *)
(*   FairSpec      Spec with weak fairness (every started call returns)    *)
(*   SpecTransform Experiment.transform on drawn inputs                    *)
(*   SpecRuntime   Experiment._get_runtime on drawn configurations         *)
(*                                                                         *)
(* Progress values are reals in the code; here they are integers counted   *)
(* in units of 1/Scale of a sequence.                                      *)
(***************************************************************************)
EXTENDS Integers, Sequences, FiniteSets, TLC

\* ------------------------------------------------------------- bounds
MaxN == 3          \* longest batch of sequences
MaxT == 3          \* longest transformer list (SpecTransform)
MaxCalls == 2      \* successive _get_runtime calls on one experiment

VARIABLES
    \* run_experiment
    persist,        \* argument persist
    force,          \* argument force
    sequences,      \* argument sequences (the batch)
    transformers,   \* experiment._transformers
    pc,             \* position in run_experiment
    idx,            \* 1-based number of the sequence of the current iteration
    sequence,       \* loop variable `sequence` (after line 85: transformed)
    finished,       \* progress._finished
    bar,            \* last value given to progress.bar.update_absolute
    lastCb,         \* argument of the last progress(...) call of this execute
    exc,            \* the exception last raised by a call of this iteration
    te,             \* the caught TrackerException (line 88: as te)
    flog,           \* the log handle of the with block
    raised,         \* the exception that left run_experiment
    transformCalls, \* history: sequence numbers given to experiment.transform
    executeCalls,   \* history: the execute invocations
    logFailures,    \* history: tracker failures raised with a captured log
    logCalls,       \* history: experiment.log invocations
    closes,         \* history: log handles released
    logs,           \* storage: the log last written (name and content)
    completed,      \* history: executes that returned or whose failure was swallowed
    \* transform
    tIn,            \* SpecTransform: the argument of transform
    tOut,           \* SpecTransform: what transform gave
    \* _get_runtime
    realtime,       \* experiment._realtime
    seqFps,         \* the metadata of the sequence given to _get_runtime
    rpc,            \* position in _get_runtime
    grace,          \* local grace
    fps,            \* local fps
    interval,       \* local interval (a reciprocal: 1 / den)
    runtimeCalls,   \* tracker.runtime() invocations so far
    calls,          \* _get_runtime calls so far
    result,         \* what the last _get_runtime call gave
    noise,          \* experiment._noise
    inject,         \* experiment._inject
    entry,          \* history: runtimeCalls when the running call began
    metaReads,      \* history: sequence.metadata calls of the running call
    prev            \* history: the call before (its sequence and its result)

runVars == <<persist, force, sequences, transformers, pc, idx, sequence, finished,
             bar, lastCb, exc, te, flog, raised, transformCalls, executeCalls,
             logFailures, logCalls, closes, logs, completed>>
args == <<persist, force, sequences, transformers>>
transformVars == <<tIn, tOut>>
runtimeVars == <<realtime, seqFps, rpc, grace, fps, interval, runtimeCalls, calls,
                 result, noise, inject, entry, metaReads, prev>>
vars == <<runVars, transformVars, runtimeVars>>

Min(a, b) == IF a < b THEN a ELSE b
Max(a, b) == IF a > b THEN a ELSE b
Range(s) == {s[i] : i \in DOMAIN s}
UpTo(n) == [i \in 1..n |-> i]
SeqsUpTo(S, n) == UNION {[1..k -> S] : k \in 0..n}

\* ---------------------------------------------------------- transform
\* A sequence is a number; a transformer is one of three adapters.  "chk" is
\* a transformer that raises on a sequence it does not accept.
SeqVals == {0, 1}
Transformers == {"inc", "dbl", "chk"}
Err == -1

\* transformer(sequence): the new sequence, or Err when the transformer raises
CallTransformer(t, s) ==
    CASE t = "inc" -> s + 1
      [] t = "dbl" -> 2 * s
      [] t = "chk" -> IF s % 2 = 1 THEN Err ELSE s + 3

\* the for loop of transform from the k-th transformer on, `applied` being the
\* transformers called so far
RECURSIVE transformFrom(_, _, _, _)
transformFrom(ts, k, s, applied) ==
    IF k > Len(ts)
    THEN [val |-> s, raised |-> FALSE, applied |-> applied]
    ELSE LET r == CallTransformer(ts[k], s)
         IN  IF r = Err
             THEN [val |-> s, raised |-> TRUE, applied |-> Append(applied, k)]
             ELSE transformFrom(ts, k + 1, r, Append(applied, k))

\* transform iterating the list from its end: for transformer in
\* reversed(self._transformers)
transform_Reversed(ts, s) ==
    transformFrom([i \in 1..Len(ts) |-> ts[Len(ts) + 1 - i]], 1, s, <<>>)

transform(ts, s) == transformFrom(ts, 1, s, <<>>)

\* ------------------------------------------------------ run_experiment
\* min(1, ...) and max(0, ...) of line 75 work on reals; a progress value is
\* counted here in halves of a sequence, so Scale stands for the literal 1.
Scale == 2
CbVals == (0 - 1)..(Scale + 1)       \* callback arguments: -0.5, 0, 0.5, 1, 1.5
NoCb == 0 - 99                        \* no callback yet in this execute call

Tracker == "T1"                       \* tracker.identifier of the loop's tracker
TrackerIds == {"T1", "T2"}            \* identifiers a TrackerException can name
NoLog == "None"                       \* te.log is None
LogBlobs == {"outA", "outB"}          \* captured tracker output

NoExc == [kind |-> "none", tracker |-> "", log |-> NoLog, at |-> 0]
TrackerException(t, l, n) ==
    [kind |-> "TrackerException", tracker |-> t, log |-> l, at |-> n]
\* any exception that is not a TrackerException, raised by `origin`
OtherError(origin, n) == [kind |-> "Error", tracker |-> origin, log |-> NoLog, at |-> n]

NoHandle == [open |-> FALSE, name |-> ""]
NoFile == [name |-> "", content |-> NoLog]

\* the transformer lists an experiment of the run loop is configured with
RunTransformers == {<<"dbl", "inc">>, <<"inc", "chk">>}

\* Reported without the lower clamp: min(1, progress)
Reported_NoLowerClamp(fin, p) == fin * Scale + Min(Scale, p)

\* Reported without the upper clamp: max(0, progress)
Reported_NoUpperClamp(fin, p) == fin * Scale + Max(0, p)

\* Reported without the finished sequences: min(1, max(0, progress))
Reported_NoOffset(fin, p) == Min(Scale, Max(0, p))

\* EvaluationProgress.__call__: the value given to bar.update_absolute
Reported(fin, p) == fin * Scale + Min(Scale, Max(0, p))

RunIdle ==
    /\ persist = FALSE /\ force = FALSE /\ sequences = <<>> /\ transformers = <<>>
    /\ pc = "idle" /\ idx = 0 /\ sequence = 0 /\ finished = 0 /\ bar = 0
    /\ lastCb = NoCb /\ exc = NoExc /\ te = NoExc /\ flog = NoHandle
    /\ raised = NoExc
    /\ transformCalls = <<>> /\ executeCalls = <<>>
    /\ logFailures = 0 /\ logCalls = 0 /\ closes = 0 /\ logs = NoFile
    /\ completed = 0
TransformIdle == tIn = <<>> /\ tOut = <<>>
RuntimeIdle ==
    /\ realtime = <<>> /\ seqFps = <<>> /\ rpc = "idle" /\ grace = 0 /\ fps = 0
    /\ interval = 0 /\ runtimeCalls = 0 /\ calls = 0 /\ result = <<>>
    /\ noise = "None" /\ inject = "None" /\ entry = 0 /\ metaReads = 0
    /\ prev = <<>>

\* lines 66-83: the arguments, and progress = EvaluationProgress(...)
Init ==
    /\ persist \in BOOLEAN
    /\ force \in BOOLEAN
    /\ sequences \in SeqsUpTo(SeqVals, MaxN)
    /\ transformers \in RunTransformers
    /\ pc = "for" /\ idx = 0 /\ sequence = 0
    /\ finished = 0 /\ bar = 0 /\ lastCb = NoCb
    /\ exc = NoExc /\ te = NoExc /\ flog = NoHandle /\ raised = NoExc
    /\ transformCalls = <<>> /\ executeCalls = <<>>
    /\ logFailures = 0 /\ logCalls = 0 /\ closes = 0 /\ logs = NoFile
    /\ completed = 0
    /\ TransformIdle /\ RuntimeIdle

\* line 84: the next sequence of the batch
ForNext ==
    /\ pc = "for" /\ idx < Len(sequences)
    /\ idx' = idx + 1
    /\ sequence' = sequences[idx + 1]
    /\ exc' = NoExc
    /\ pc' = "transform"
    /\ UNCHANGED <<finished, bar, lastCb, te, flog, raised, transformCalls,
                   executeCalls, logFailures, logCalls, closes, logs>>
    /\ UNCHANGED <<args, completed, transformVars, runtimeVars>>

\* line 84: the batch is exhausted, run_experiment returns
ForEnd ==
    /\ pc = "for" /\ idx = Len(sequences)
    /\ pc' = "done"
    /\ UNCHANGED <<idx, sequence, finished, bar, lastCb, exc, te, flog, raised,
                   transformCalls, executeCalls, logFailures, logCalls, closes, logs>>
    /\ UNCHANGED <<args, completed, transformVars, runtimeVars>>

\* line 85: sequence = experiment.transform(sequence); an error of a
\* transformer is outside every try block and leaves run_experiment
Transform ==
    /\ pc = "transform"
    /\ transformCalls' = Append(transformCalls, idx)
    /\ LET r == transform(transformers, sequence)
       IN  IF r.raised
           THEN /\ exc' = OtherError("transform", idx)
                /\ raised' = OtherError("transform", idx)
                /\ pc' = "done"
                /\ UNCHANGED sequence
           ELSE /\ sequence' = r.val
                /\ pc' = "try"
                /\ UNCHANGED <<exc, raised>>
    /\ UNCHANGED <<idx, finished, bar, lastCb, te, flog, executeCalls, logFailures,
                   logCalls, closes, logs>>
    /\ UNCHANGED <<args, completed, transformVars, runtimeVars>>

\* ExecuteCall with the sequence of the batch instead of the transformed one
ExecuteCall_Untransformed ==
    /\ pc = "try"
    /\ executeCalls' = Append(executeCalls,
                              [n |-> idx, sequence |-> sequences[idx], force |-> force,
                               callback |-> "progress"])
    /\ lastCb' = NoCb
    /\ pc' = "execute"
    /\ UNCHANGED <<idx, sequence, finished, bar, exc, te, flog, raised, transformCalls,
                   logFailures, logCalls, closes, logs>>
    /\ UNCHANGED <<args, completed, transformVars, runtimeVars>>

\* line 87: experiment.execute(tracker, sequence, force=force, callback=progress)
ExecuteCall ==
    /\ pc = "try"
    /\ executeCalls' = Append(executeCalls,
                              [n |-> idx, sequence |-> sequence, force |-> force,
                               callback |-> "progress"])
    /\ lastCb' = NoCb
    /\ pc' = "execute"
    /\ UNCHANGED <<idx, sequence, finished, bar, exc, te, flog, raised, transformCalls,
                   logFailures, logCalls, closes, logs>>
    /\ UNCHANGED <<args, completed, transformVars, runtimeVars>>

\* lines 74-75: execute calls progress(p)
Callback(p) ==
    /\ pc = "execute"
    /\ bar' = Reported(finished, p)
    /\ lastCb' = p
    /\ UNCHANGED <<pc, idx, sequence, finished, exc, te, flog, raised, transformCalls,
                   executeCalls, logFailures, logCalls, closes, logs>>
    /\ UNCHANGED <<args, completed, transformVars, runtimeVars>>

\* line 87: execute returns
ExecuteReturn ==
    /\ pc = "execute"
    /\ pc' = "push"
    /\ completed' = completed + 1
    /\ UNCHANGED <<idx, sequence, finished, bar, lastCb, exc, te, flog, raised,
                   transformCalls, executeCalls, logFailures, logCalls, closes, logs>>
    /\ UNCHANGED <<args, transformVars, runtimeVars>>

\* line 87: execute raises a TrackerException naming tracker t, with log l
ExecuteRaiseTracker(t, l) ==
    /\ pc = "execute"
    /\ exc' = TrackerException(t, l, idx)
    /\ logFailures' = IF l = NoLog THEN logFailures ELSE logFailures + 1
    /\ pc' = "catch"
    /\ UNCHANGED <<idx, sequence, finished, bar, lastCb, te, flog, raised,
                   transformCalls, executeCalls, logCalls, closes, logs>>
    /\ UNCHANGED <<args, completed, transformVars, runtimeVars>>

\* line 87: execute raises an exception that is no TrackerException
ExecuteRaiseOther ==
    /\ pc = "execute"
    /\ exc' = OtherError("execute", idx)
    /\ pc' = "catch"
    /\ UNCHANGED <<idx, sequence, finished, bar, lastCb, te, flog, raised,
                   transformCalls, executeCalls, logFailures, logCalls, closes, logs>>
    /\ UNCHANGED <<args, completed, transformVars, runtimeVars>>

\* Catch with a clause that matches every exception: except Exception as te
Catch_CatchAll ==
    /\ pc = "catch"
    /\ te' = exc /\ pc' = "except"
    /\ UNCHANGED <<idx, sequence, finished, bar, lastCb, exc, flog, raised,
                   transformCalls, executeCalls, logFailures, logCalls, closes, logs>>
    /\ UNCHANGED <<args, completed, transformVars, runtimeVars>>

\* line 88: except TrackerException as te; any other exception leaves
\* run_experiment
Catch ==
    /\ pc = "catch"
    /\ IF exc.kind = "TrackerException"
       THEN te' = exc /\ pc' = "except" /\ UNCHANGED raised
       ELSE raised' = exc /\ pc' = "done" /\ UNCHANGED te
    /\ UNCHANGED <<idx, sequence, finished, bar, lastCb, exc, flog, transformCalls,
                   executeCalls, logFailures, logCalls, closes, logs>>
    /\ UNCHANGED <<args, completed, transformVars, runtimeVars>>

\* HandleTrackerException with the raise placed before the log is written
HandleTrackerException_RaiseFirst ==
    /\ pc = "except"
    /\ IF ~persist
       THEN raised' = te /\ pc' = "done"
       ELSE pc' = (IF te.log # NoLog THEN "log" ELSE "persist") /\ UNCHANGED raised
    /\ UNCHANGED <<idx, sequence, finished, bar, lastCb, exc, te, flog,
                   transformCalls, executeCalls, logFailures, logCalls, closes, logs>>
    /\ UNCHANGED <<args, completed, transformVars, runtimeVars>>

\* lines 89-91: the two logger calls, then the test of te.log
HandleTrackerException ==
    /\ pc = "except"
    /\ pc' = IF te.log # NoLog THEN "log" ELSE "persist"
    /\ UNCHANGED <<idx, sequence, finished, bar, lastCb, exc, te, flog, raised,
                   transformCalls, executeCalls, logFailures, logCalls, closes, logs>>
    /\ UNCHANGED <<args, completed, transformVars, runtimeVars>>

\* OpenLog with the loop's tracker: experiment.log(tracker.identifier)
OpenLog_LoopTracker ==
    /\ pc = "log"
    /\ logCalls' = logCalls + 1
    /\ flog' = [open |-> TRUE, name |-> Tracker]
    /\ pc' = "write"
    /\ UNCHANGED <<idx, sequence, finished, bar, lastCb, exc, te, raised,
                   transformCalls, executeCalls, logFailures, closes, logs>>
    /\ UNCHANGED <<args, completed, transformVars, runtimeVars>>

\* line 92: with experiment.log(te.tracker.identifier) as flog
OpenLog ==
    /\ pc = "log"
    /\ logCalls' = logCalls + 1
    /\ flog' = [open |-> TRUE, name |-> te.tracker]
    /\ pc' = "write"
    /\ UNCHANGED <<idx, sequence, finished, bar, lastCb, exc, te, raised,
                   transformCalls, executeCalls, logFailures, closes, logs>>
    /\ UNCHANGED <<args, completed, transformVars, runtimeVars>>

\* OpenLogFails inside a try/except that ignores storage errors
OpenLogFails_Ignored ==
    /\ pc = "log"
    /\ logCalls' = logCalls + 1
    /\ exc' = OtherError("log", idx)
    /\ pc' = "persist"
    /\ UNCHANGED <<idx, sequence, finished, bar, lastCb, te, flog, raised,
                   transformCalls, executeCalls, logFailures, closes, logs>>
    /\ UNCHANGED <<args, completed, transformVars, runtimeVars>>

\* line 92: storage cannot open the log; the error leaves run_experiment
OpenLogFails ==
    /\ pc = "log"
    /\ logCalls' = logCalls + 1
    /\ exc' = OtherError("log", idx)
    /\ raised' = OtherError("log", idx)
    /\ pc' = "done"
    /\ UNCHANGED <<idx, sequence, finished, bar, lastCb, te, flog, transformCalls,
                   executeCalls, logFailures, closes, logs>>
    /\ UNCHANGED <<args, completed, transformVars, runtimeVars>>

\* line 93: flog.write(te.log)
WriteLog ==
    /\ pc = "write"
    /\ logs' = [name |-> flog.name, content |-> te.log]
    /\ pc' = "written"
    /\ UNCHANGED <<idx, sequence, finished, bar, lastCb, exc, te, flog, raised,
                   transformCalls, executeCalls, logFailures, logCalls, closes>>
    /\ UNCHANGED <<args, completed, transformVars, runtimeVars>>

\* line 93: the write fails; the with block releases the handle on the way out
WriteLogFails ==
    /\ pc = "write"
    /\ flog' = NoHandle
    /\ closes' = closes + 1
    /\ exc' = OtherError("write", idx)
    /\ raised' = OtherError("write", idx)
    /\ pc' = "done"
    /\ UNCHANGED <<idx, sequence, finished, bar, lastCb, te, transformCalls,
                   executeCalls, logFailures, logCalls, logs>>
    /\ UNCHANGED <<args, completed, transformVars, runtimeVars>>

\* CloseLog without the with block: flog = experiment.log(...), never closed
CloseLog_Leak ==
    /\ pc = "written"
    /\ pc' = "persist"
    /\ UNCHANGED <<idx, sequence, finished, bar, lastCb, exc, te, flog, raised,
                   transformCalls, executeCalls, logFailures, logCalls, closes, logs>>
    /\ UNCHANGED <<args, completed, transformVars, runtimeVars>>

\* line 94 and the end of the with block: the handle is released
CloseLog ==
    /\ pc = "written"
    /\ flog' = NoHandle
    /\ closes' = closes + 1
    /\ pc' = "persist"
    /\ UNCHANGED <<idx, sequence, finished, bar, lastCb, exc, te, raised,
                   transformCalls, executeCalls, logFailures, logCalls, logs>>
    /\ UNCHANGED <<args, completed, transformVars, runtimeVars>>

\* PersistCheck without the raise: every failure is swallowed
PersistCheck_NeverRaise ==
    /\ pc = "persist"
    /\ te' = NoExc /\ pc' = "push"
    /\ completed' = completed + 1
    /\ UNCHANGED <<idx, sequence, finished, bar, lastCb, exc, flog, raised,
                   transformCalls, executeCalls, logFailures, logCalls, closes, logs>>
    /\ UNCHANGED <<args, transformVars, runtimeVars>>

\* PersistCheck without the test of persist: raise te
PersistCheck_AlwaysRaise ==
    /\ pc = "persist"
    /\ raised' = te /\ pc' = "done"
    /\ UNCHANGED <<idx, sequence, finished, bar, lastCb, exc, te, flog,
                   transformCalls, executeCalls, logFailures, logCalls, closes, logs>>
    /\ UNCHANGED <<args, completed, transformVars, runtimeVars>>

\* PersistCheck with `continue` after a swallowed failure: push is skipped
PersistCheck_Continue ==
    /\ pc = "persist"
    /\ IF ~persist
       THEN raised' = te /\ pc' = "done" /\ UNCHANGED <<te, completed>>
       ELSE /\ te' = NoExc /\ pc' = "for" /\ UNCHANGED raised
            /\ completed' = completed + 1
    /\ UNCHANGED <<idx, sequence, finished, bar, lastCb, exc, flog, transformCalls,
                   executeCalls, logFailures, logCalls, closes, logs>>
    /\ UNCHANGED <<args, transformVars, runtimeVars>>

\* PersistCheck with progress.push() in a finally clause: it runs before the
\* failure leaves
PersistCheck_PushInFinally ==
    /\ pc = "persist"
    /\ IF ~persist
       THEN /\ raised' = te /\ pc' = "done" /\ UNCHANGED <<te, completed>>
            /\ finished' = finished + 1 /\ bar' = (finished + 1) * Scale
       ELSE /\ te' = NoExc /\ pc' = "push" /\ UNCHANGED <<raised, finished, bar>>
            /\ completed' = completed + 1
    /\ UNCHANGED <<idx, sequence, lastCb, exc, flog, transformCalls,
                   executeCalls, logFailures, logCalls, closes, logs>>
    /\ UNCHANGED <<args, transformVars, runtimeVars>>

\* lines 95-96: if not persist: raise te; else the except clause ends and
\* te is unbound
PersistCheck ==
    /\ pc = "persist"
    /\ IF ~persist
       THEN raised' = te /\ pc' = "done" /\ UNCHANGED <<te, completed>>
       ELSE /\ te' = NoExc /\ pc' = "push" /\ UNCHANGED raised
            /\ completed' = completed + 1
    /\ UNCHANGED <<idx, sequence, finished, bar, lastCb, exc, flog, transformCalls,
                   executeCalls, logFailures, logCalls, closes, logs>>
    /\ UNCHANGED <<args, transformVars, runtimeVars>>

\* line 97 and lines 77-79: progress.push()
Push ==
    /\ pc = "push"
    /\ finished' = finished + 1
    /\ bar' = (finished + 1) * Scale
    /\ pc' = "for"
    /\ UNCHANGED <<idx, sequence, lastCb, exc, te, flog, raised, transformCalls,
                   executeCalls, logFailures, logCalls, closes, logs>>
    /\ UNCHANGED <<args, completed, transformVars, runtimeVars>>

ExecuteEnds ==
    \/ ExecuteReturn
    \/ \E t \in TrackerIds, l \in LogBlobs \cup {NoLog} : ExecuteRaiseTracker(t, l)
    \/ ExecuteRaiseOther

Next ==
    \/ ForNext
    \/ ForEnd
    \/ Transform
    \/ ExecuteCall
    \/ \E p \in CbVals : Callback(p)
    \/ ExecuteReturn
    \/ \E t \in TrackerIds, l \in LogBlobs \cup {NoLog} : ExecuteRaiseTracker(t, l)
    \/ ExecuteRaiseOther
    \/ Catch
    \/ HandleTrackerException
    \/ OpenLog
    \/ OpenLogFails
    \/ WriteLog
    \/ WriteLogFails
    \/ CloseLog
    \/ PersistCheck
    \/ Push

Spec == Init /\ [][Next]_vars

\* every call the loop makes returns or raises: execute ends after finitely
\* many callbacks, and the loop's own steps are taken
FairSpec == Spec /\ WF_vars(Next) /\ WF_vars(ExecuteEnds)

\* ------------------------------------------- Experiment.transform alone
InitTransform ==
    /\ transformers \in SeqsUpTo(Transformers, MaxT)
    /\ tIn \in SeqVals
    /\ tOut = <<>>
    /\ persist = FALSE /\ force = FALSE /\ sequences = <<>>
    /\ pc = "idle" /\ idx = 0 /\ sequence = 0 /\ finished = 0 /\ bar = 0
    /\ lastCb = NoCb /\ exc = NoExc /\ te = NoExc /\ flog = NoHandle
    /\ raised = NoExc /\ transformCalls = <<>> /\ executeCalls = <<>>
    /\ logFailures = 0 /\ logCalls = 0 /\ closes = 0 /\ logs = NoFile
    /\ completed = 0
    /\ RuntimeIdle

\* lines 58-61: experiment.transform(tIn)
TransformCall ==
    /\ tOut = <<>>
    /\ tOut' = <<transform(transformers, tIn)>>
    /\ UNCHANGED <<runVars, tIn, runtimeVars>>

NextTransform == TransformCall

SpecTransform == InitTransform /\ [][NextTransform]_vars

\* ------------------------------------------ Experiment._get_runtime alone
DefaultGrace == 0      \* line 36: self._realtime.get("grace", 0)
DefaultFps == 20       \* line 37: self._realtime.get("fps", 20)
MinGrace == 0          \* line 36: min_n=0
MinFps == 0            \* line 37: min_n=0

GraceVals == {0 - 1, 0, 2}       \* values of realtime["grace"]
FpsVals == {0 - 5, 0, 10, 25}    \* values of realtime["fps"]
SeqFpsVals == {30, 50}           \* frame rates a sequence declares

\* a dict with the keys K
Dict(K, g, f) == [k \in K |-> IF k = "grace" THEN g ELSE f]
RealtimeDicts == {Dict(K, g, f) : K \in SUBSET {"grace", "fps"},
                                  g \in GraceVals, f \in FpsVals}
\* the metadata of a sequence: it declares a frame rate or it does not
Metadatas == {Dict({}, 0, 0)} \cup {Dict({"fps"}, 0, f) : f \in SeqFpsVals}

\* dict.get(key, default) and sequence.metadata(key, default)
Get(d, key, default) == IF key \in DOMAIN d THEN d[key] ELSE default

\* vot.utilities.to_number(val, min_n=m): the number, or a configuration
\* error when it is lower than the lowest value allowed
ConfigError == [kind |-> "ConfigError", runtime |-> 0, grace |-> 0, den |-> 0]
ZeroDivisionError == [kind |-> "ZeroDivisionError", runtime |-> 0, grace |-> 0, den |-> 0]
NoResult == [kind |-> "none", runtime |-> 0, grace |-> 0, den |-> 0]
to_number(val, min_n) == IF val < min_n THEN [ok |-> FALSE, n |-> 0]
                                        ELSE [ok |-> TRUE, n |-> val]

\* lines 24-25: the values the slots noise and inject are given (None or a dict)
SlotVals == {"None", "dict"}

InitRuntime ==
    /\ realtime \in {[set |-> FALSE, cfg |-> Dict({}, 0, 0)]}
                    \cup {[set |-> TRUE, cfg |-> d] : d \in RealtimeDicts}
    /\ seqFps = Dict({}, 0, 0)
    /\ rpc = "idle" /\ grace = 0 /\ fps = 0 /\ interval = 0
    /\ runtimeCalls = 0 /\ calls = 0 /\ result = NoResult
    /\ noise \in SlotVals /\ inject \in SlotVals
    /\ entry = 0 /\ metaReads = 0
    /\ prev = [meta |-> Dict({}, 0, 0), result |-> NoResult]
    /\ RunIdle /\ TransformIdle

\* line 34: _get_runtime(tracker, sequence) is called with a sequence of
\* metadata m
GetRuntimeCall(m) ==
    /\ rpc = "idle" /\ calls < MaxCalls
    /\ calls' = calls + 1
    /\ seqFps' = m
    /\ result' = NoResult
    /\ entry' = runtimeCalls
    /\ metaReads' = 0
    /\ prev' = [meta |-> seqFps, result |-> result]
    /\ rpc' = "L35"
    /\ UNCHANGED <<realtime, noise, inject, grace, fps, interval, runtimeCalls>>
    /\ UNCHANGED <<runVars, transformVars>>

\* TestRealtime with runtime = tracker.runtime() hoisted above the test
TestRealtime_RuntimeFirst ==
    /\ rpc = "L35"
    /\ runtimeCalls' = runtimeCalls + 1
    /\ rpc' = IF realtime.set THEN "L36" ELSE "L41"
    /\ UNCHANGED <<realtime, noise, inject, entry, metaReads, prev, seqFps, grace,
                   fps, interval, calls, result>>
    /\ UNCHANGED <<runVars, transformVars>>

\* TestRealtime with the test inverted: if self._realtime is None
TestRealtime_Inverted ==
    /\ rpc = "L35"
    /\ rpc' = IF realtime.set THEN "L41" ELSE "L36"
    /\ UNCHANGED <<realtime, noise, inject, entry, metaReads, prev, seqFps, grace,
                   fps, interval, runtimeCalls, calls, result>>
    /\ UNCHANGED <<runVars, transformVars>>

\* line 35: if not self._realtime is None
TestRealtime ==
    /\ rpc = "L35"
    /\ rpc' = IF realtime.set THEN "L36" ELSE "L41"
    /\ UNCHANGED <<realtime, noise, inject, entry, metaReads, prev,
                   seqFps, grace, fps, interval, runtimeCalls, calls, result>>
    /\ UNCHANGED <<runVars, transformVars>>

\* line 36: grace = to_number(self._realtime.get("grace", 0), min_n=0)
ReadGrace ==
    /\ rpc = "L36"
    /\ LET r == to_number(Get(realtime.cfg, "grace", DefaultGrace), MinGrace)
       IN  IF r.ok
           THEN grace' = r.n /\ rpc' = "L37" /\ UNCHANGED result
           ELSE result' = ConfigError /\ rpc' = "idle" /\ UNCHANGED grace
    /\ UNCHANGED <<realtime, noise, inject, entry, metaReads, prev,
                   seqFps, fps, interval, runtimeCalls, calls>>
    /\ UNCHANGED <<runVars, transformVars>>

\* line 37: fps = to_number(self._realtime.get("fps", 20), min_n=0,
\* conversion=float)
ReadFps ==
    /\ rpc = "L37"
    /\ LET r == to_number(Get(realtime.cfg, "fps", DefaultFps), MinFps)
       IN  IF r.ok
           THEN fps' = r.n /\ rpc' = "L38" /\ UNCHANGED result
           ELSE result' = ConfigError /\ rpc' = "idle" /\ UNCHANGED fps
    /\ UNCHANGED <<realtime, noise, inject, entry, metaReads, prev,
                   seqFps, grace, interval, runtimeCalls, calls>>
    /\ UNCHANGED <<runVars, transformVars>>

\* ComputeInterval from the configured fps alone: interval = 1 / float(fps)
ComputeInterval_IgnoresSequence ==
    /\ rpc = "L38"
    /\ IF fps # 0
       THEN interval' = fps /\ rpc' = "L39" /\ UNCHANGED result
       ELSE result' = ZeroDivisionError /\ rpc' = "idle" /\ UNCHANGED interval
    /\ UNCHANGED <<realtime, noise, inject, entry, metaReads, prev, seqFps, grace,
                   fps, runtimeCalls, calls>>
    /\ UNCHANGED <<runVars, transformVars>>

\* ComputeInterval with the interval kept from the first call that computed it
ComputeInterval_Cached ==
    /\ rpc = "L38"
    /\ LET d == IF interval # 0 THEN interval ELSE Get(seqFps, "fps", fps)
       IN  IF d # 0
           THEN interval' = d /\ rpc' = "L39" /\ UNCHANGED result
           ELSE result' = ZeroDivisionError /\ rpc' = "idle" /\ UNCHANGED interval
    /\ metaReads' = metaReads + 1
    /\ UNCHANGED <<realtime, noise, inject, entry, prev, seqFps, grace, fps,
                   runtimeCalls, calls>>
    /\ UNCHANGED <<runVars, transformVars>>

\* line 38: interval = 1 / float(sequence.metadata("fps", fps)); interval
\* holds the divisor, and a divisor of 0 raises ZeroDivisionError
ComputeInterval ==
    /\ rpc = "L38"
    /\ LET d == Get(seqFps, "fps", fps)
       IN  IF d # 0
           THEN interval' = d /\ rpc' = "L39" /\ UNCHANGED result
           ELSE result' = ZeroDivisionError /\ rpc' = "idle" /\ UNCHANGED interval
    /\ metaReads' = metaReads + 1
    /\ UNCHANGED <<realtime, noise, inject, entry, prev, seqFps, grace, fps,
                   runtimeCalls, calls>>
    /\ UNCHANGED <<runVars, transformVars>>

\* line 39 and 42: RealtimeTrackerRuntime(tracker.runtime(), grace, interval)
WrapRuntime ==
    /\ rpc = "L39"
    /\ runtimeCalls' = runtimeCalls + 1
    /\ result' = [kind |-> "RealtimeTrackerRuntime", runtime |-> runtimeCalls + 1,
                  grace |-> grace, den |-> interval]
    /\ rpc' = "idle"
    /\ UNCHANGED <<realtime, noise, inject, entry, metaReads, prev,
                   seqFps, grace, fps, interval, calls>>
    /\ UNCHANGED <<runVars, transformVars>>

\* lines 41-42: runtime = tracker.runtime()
PlainRuntime ==
    /\ rpc = "L41"
    /\ runtimeCalls' = runtimeCalls + 1
    /\ result' = [kind |-> "TrackerRuntime", runtime |-> runtimeCalls + 1,
                  grace |-> 0, den |-> 0]
    /\ rpc' = "idle"
    /\ UNCHANGED <<realtime, noise, inject, entry, metaReads, prev,
                   seqFps, grace, fps, interval, calls>>
    /\ UNCHANGED <<runVars, transformVars>>

NextRuntime ==
    \/ \E m \in Metadatas : GetRuntimeCall(m)
    \/ TestRealtime
    \/ ReadGrace
    \/ ReadFps
    \/ ComputeInterval
    \/ WrapRuntime
    \/ PlainRuntime

SpecRuntime == InitRuntime /\ [][NextRuntime]_vars

\* ------------------------------------------------- claims: run_experiment
ExecutedNumbers == [i \in 1..Len(executeCalls) |-> executeCalls[i].n]
Handling == {"except", "log", "write", "written", "persist"}
\* the error came from storage while the failure was being logged
LogError(e) == e.kind = "Error" /\ e.tracker \in {"log", "write"}
Clamp(x, lo, hi) == IF x < lo THEN lo ELSE IF x > hi THEN hi ELSE x

\* C1: with persist=false, once execute of sequence k has raised a tracker
\* failure (the first one: nothing was swallowed before), transform and execute
\* have been invoked for exactly the sequences 1..k, once each and in order,
\* the loop never goes on to another sequence, and when it ends it ends by
\* raising that same failure (unless storage failed while logging it).
C1_AbortAtFirstFailure ==
    (~persist /\ exc.kind = "TrackerException" /\ pc # "catch") =>
        /\ te = exc
        /\ idx = te.at
        /\ ExecutedNumbers = UpTo(te.at)
        /\ transformCalls = UpTo(te.at)
        /\ pc \in Handling \cup {"done"}
        /\ pc \in Handling => ENABLED Next
        /\ (pc = "done" /\ ~LogError(raised)) => raised = te

C1_Witness ==
    /\ pc = "done" /\ ~persist /\ Len(sequences) = 3
    /\ raised.kind = "TrackerException" /\ raised.at = 2
    /\ Len(executeCalls) = 2

\* C2: with persist=true execute is invoked once per sequence, in batch
\* order, and a run in which the only errors are tracker failures (with or
\* without captured log) ends with all N sequences executed.
C2_PersistAttemptsAll ==
    persist =>
        /\ \E k \in 0..Len(sequences) : ExecutedNumbers = UpTo(k)
        /\ (pc = "done" /\ raised.kind # "Error") =>
               ExecutedNumbers = UpTo(Len(sequences))

C2_Witness ==
    /\ pc = "done" /\ persist /\ Len(sequences) = 3
    /\ logFailures = 2 /\ exc.kind = "TrackerException" /\ exc.log = NoLog
    /\ ExecutedNumbers = <<1, 2, 3>>

\* C3: with persist=true and no error other than tracker failures, the loop
\* terminates, it returns normally (no exception leaves it), and the last
\* reported progress is N.
C3_PersistReturns ==
    /\ [](persist => <>(pc = "done"))
    /\ []((persist /\ pc = "done" /\ raised.kind # "Error") =>
              /\ raised = NoExc
              /\ finished = Len(sequences)
              /\ bar = Len(sequences) * Scale)

C3_Witness ==
    /\ pc = "done" /\ persist /\ Len(sequences) = 3 /\ raised = NoExc
    /\ logFailures = 1 /\ logs.content = "outA" /\ bar = 3 * Scale

\* C4: at the head of the loop, after j sequences have been processed, the
\* reported progress is j; during execute of sequence j_prev+1 the unit of that
\* sequence is not yet counted and a callback value p is reported as
\* clamp(j_prev + p, j_prev, j_prev + 1).
C4_ProgressValues ==
    /\ pc = "for" => (finished = Len(executeCalls) /\ bar = finished * Scale)
    /\ (pc = "execute" /\ lastCb # NoCb) =>
           /\ finished = idx - 1
           /\ bar = Clamp(finished * Scale + lastCb, finished * Scale,
                          (finished + 1) * Scale)

C4_Witness ==
    pc = "execute" /\ finished = 1 /\ lastCb < 0 /\ bar = Scale

\* C5 as stated: after the abort on the failure of sequence k the unit of k
\* is not counted and the last reported value v has k-1 <= v < k.
C5_StallsBelowK ==
    (pc = "done" /\ ~persist /\ raised.kind = "TrackerException") =>
        /\ finished = raised.at - 1
        /\ (raised.at - 1) * Scale <= bar
        /\ bar < raised.at * Scale

\* C5 amended: ... the last reported value v has k-1 <= v <= k; v = k when
\* execute reported a callback value >= 1 before it failed.
C5_StallsWithinK ==
    (pc = "done" /\ ~persist /\ raised.kind = "TrackerException") =>
        /\ finished = raised.at - 1
        /\ (raised.at - 1) * Scale <= bar
        /\ bar <= raised.at * Scale
        /\ (bar = raised.at * Scale <=> (lastCb # NoCb /\ lastCb >= Scale))

C5_Witness ==
    /\ pc = "done" /\ ~persist /\ raised.kind = "TrackerException"
    /\ raised.at = 2 /\ Len(sequences) = 3 /\ bar = 2 * Scale /\ finished = 1

\* C6: an error that is not a tracker failure, raised by a transformer or
\* by execute, ends the loop at that sequence and is what the caller gets,
\* for either value of persist; no log is opened and no unit is counted for
\* that sequence.
C6_OtherErrorsFatal ==
    (exc.kind = "Error" /\ exc.tracker \in {"transform", "execute"}
                        /\ pc # "catch") =>
        /\ pc = "done"
        /\ raised = exc
        /\ exc.at = idx
        /\ finished = idx - 1
        /\ logCalls = logFailures
        /\ ~flog.open
        /\ Len(executeCalls) = IF exc.tracker = "execute" THEN idx ELSE idx - 1

C6_Witness ==
    /\ pc = "done" /\ persist /\ raised.kind = "Error"
    /\ raised.tracker = "execute" /\ raised.at = 2 /\ finished = 1

\* C7: experiment.log is called once for every tracker failure that carries
\* a log and never otherwise; the handle is open only between line 92 and the
\* end of the with block, where the captured output has been written; it is
\* released before the failure is raised again or the next sequence starts.
C7_LogHandleScoped ==
    /\ flog.open <=> pc \in {"write", "written"}
    /\ pc = "done" => ~flog.open
    /\ logCalls = logFailures -
           (IF pc \in {"catch", "except", "log"} /\ exc.log # NoLog THEN 1 ELSE 0)
    /\ closes = logCalls - (IF flog.open \/ (pc = "done" /\ raised.tracker = "log")
                            THEN 1 ELSE 0)
    /\ pc = "written" => logs.content = te.log

C7_Witness ==
    pc = "persist" /\ persist /\ closes = 2 /\ ~flog.open /\ te.log = "outB"

\* C8 as stated: the log is opened under the identifier of the tracker given
\* to run_experiment, whatever tracker the failure names.
C8_LogUnderLoopTracker ==
    pc \in {"write", "written"} => flog.name = Tracker

\* C8 amended: the log is opened under the identifier of the tracker the
\* failure names (te.tracker.identifier), which is the loop's tracker only when
\* the failure names it; exactly the captured output is written there.
C8_LogUnderFailureTracker ==
    /\ pc \in {"write", "written"} => flog.name = te.tracker
    /\ pc = "written" => logs = [name |-> te.tracker, content |-> te.log]
    /\ (pc \in {"write", "written"} /\ te.tracker = Tracker) => flog.name = Tracker

C8_Witness ==
    /\ pc = "written" /\ te.tracker = "T2" /\ te.log = "outB"
    /\ logs = [name |-> "T2", content |-> "outB"]

\* ------------------------------------------------------ claims: transform
\* Tn(...T2(T1(S))), from the outermost call inwards; Err when a call raises
RECURSIVE Compose(_, _)
Compose(ts, s) ==
    IF Len(ts) = 0
    THEN s
    ELSE LET inner == Compose(SubSeq(ts, 1, Len(ts) - 1), s)
         IN  IF inner = Err THEN Err ELSE CallTransformer(ts[Len(ts)], inner)

\* C9: transform(S) is Tn(...T2(T1(S))): the transformers are called in list
\* order, each once, on the previous one's result (up to the one that raises,
\* if one does, and then transform raises as the composition does); with no
\* transformer transform(S) is S.
C9_TransformComposes ==
    tOut # <<>> =>
        LET r == tOut[1]
        IN  /\ IF r.raised
               THEN /\ Compose(transformers, tIn) = Err
                    /\ \E k \in 1..Len(transformers) : r.applied = UpTo(k)
               ELSE /\ r.val = Compose(transformers, tIn)
                    /\ r.applied = UpTo(Len(transformers))
            /\ transformers = <<>> => (~r.raised /\ r.val = tIn)

C9_Witness ==
    /\ tOut # <<>> /\ transformers = <<"inc", "dbl", "inc">> /\ tIn = 1
    /\ tOut[1].val = 5 /\ tOut[1].applied = <<1, 2, 3>>

\* ---------------------------------------------------- claims: _get_runtime
Returned == rpc = "idle" /\ calls > 0
IsRuntime(r) == r.kind \in {"TrackerRuntime", "RealtimeTrackerRuntime"}

\* C10: a realtime configuration with a negative grace or with fps <= 0
\* never yields a runtime: the call ends in an error, for a sequence with a
\* declared frame rate and for one without.
C10_InvalidRealtimeRejected ==
    (Returned /\ realtime.set
       /\ \/ Get(realtime.cfg, "grace", DefaultGrace) < 0
          \/ Get(realtime.cfg, "fps", DefaultFps) <= 0) =>
        ~IsRuntime(result)

\* C11: a rejected realtime configuration is rejected before the tracker is
\* touched: while grace, fps and the interval are being worked out, and when
\* the call ends in an error, tracker.runtime() has not been called by this
\* call and no wrapper exists.
C11_RejectedBeforeTracker ==
    /\ rpc \in {"L35", "L36", "L37", "L38"} => runtimeCalls = entry
    /\ (Returned /\ result.kind \in {"ConfigError", "ZeroDivisionError"}) =>
           (runtimeCalls = entry /\ result.runtime = 0)

C11_Witness ==
    /\ Returned /\ result.kind = "ConfigError" /\ realtime.set
    /\ Get(realtime.cfg, "fps", DefaultFps) < 0 /\ runtimeCalls = 0

\* C12: a valid realtime = {grace: g, fps: f} gives the pacing wrapper over
\* the plain runtime this call obtained, with grace g (0 when the key is
\* missing) and interval 1/sf for a sequence declaring fps sf whatever f is,
\* 1/f otherwise (f = 20 when the key is missing).
C12_IntervalFromFps ==
    (Returned /\ realtime.set
       /\ ("grace" \in DOMAIN realtime.cfg => realtime.cfg["grace"] >= 0)
       /\ ("fps" \in DOMAIN realtime.cfg => realtime.cfg["fps"] > 0)) =>
        /\ result.kind = "RealtimeTrackerRuntime"
        /\ runtimeCalls = entry + 1
        /\ result.runtime = runtimeCalls
        /\ result.grace = IF "grace" \in DOMAIN realtime.cfg
                          THEN realtime.cfg["grace"] ELSE 0
        /\ result.den = IF "fps" \in DOMAIN seqFps THEN seqFps["fps"]
                        ELSE IF "fps" \in DOMAIN realtime.cfg
                             THEN realtime.cfg["fps"] ELSE 20

C12_Witness ==
    /\ Returned /\ realtime.set /\ DOMAIN realtime.cfg = {"fps"}
    /\ realtime.cfg["fps"] = 10 /\ "fps" \in DOMAIN seqFps /\ seqFps["fps"] = 50
    /\ result.den = 50 /\ result.grace = 0

\* C13: with realtime None the call gives the result of one tracker.runtime()
\* call, unwrapped, and never reads the metadata of the sequence.
C13_PlainRuntime ==
    ~realtime.set =>
        /\ metaReads = 0
        /\ Returned => /\ result.kind = "TrackerRuntime"
                       /\ runtimeCalls = entry + 1
                       /\ result.runtime = runtimeCalls

C13_Witness ==
    /\ Returned /\ ~realtime.set /\ calls = 2 /\ "fps" \in DOMAIN seqFps
    /\ result = [kind |-> "TrackerRuntime", runtime |-> 2, grace |-> 0, den |-> 0]

\* C14: _get_runtime never changes the experiment (realtime, noise, inject,
\* transformers); every call that gives a runtime has called tracker.runtime()
\* anew; and of two successive calls with sequences declaring different frame
\* rates each wrapper has the interval of its own sequence.
C14_DerivedPerCall ==
    /\ [][/\ realtime' = realtime /\ noise' = noise /\ inject' = inject
          /\ transformers' = transformers]_vars
    /\ []((Returned /\ calls >= 2 /\ IsRuntime(result) /\ IsRuntime(prev.result)) =>
            /\ result.runtime = prev.result.runtime + 1
            /\ (/\ result.kind = "RealtimeTrackerRuntime"
                /\ "fps" \in DOMAIN seqFps /\ "fps" \in DOMAIN prev.meta) =>
                   /\ result.den = seqFps["fps"]
                   /\ prev.result.den = prev.meta["fps"]
                   /\ (seqFps["fps"] # prev.meta["fps"] =>
                           result.den # prev.result.den))

C14_Witness ==
    /\ Returned /\ calls = 2 /\ noise = "dict"
    /\ prev.result.kind = "RealtimeTrackerRuntime" /\ prev.result.den = 30
    /\ result.kind = "RealtimeTrackerRuntime" /\ result.den = 50

\* ------------------------------------------ claims: run_experiment, again
\* C16: every attempted sequence is given to experiment.transform once, and
\* before execute; execute gets the transformed sequence (not the one of the
\* batch), the caller's force and the loop's progress reporter; the next
\* sequence is transformed only after execute of this one has ended.  With an
\* empty batch nothing is called, progress stays 0 and the loop returns.
C16_IterationProtocol ==
    /\ transformCalls = UpTo(IF pc = "transform" THEN idx - 1 ELSE idx)
    /\ ExecutedNumbers =
           UpTo(IF pc \in {"transform", "try"}
                   \/ (pc = "done" /\ raised.kind = "Error"
                                   /\ raised.tracker = "transform")
                THEN idx - 1 ELSE idx)
    /\ pc = "execute" => Len(transformCalls) = Len(executeCalls)
    /\ \A i \in 1..Len(executeCalls) :
           /\ executeCalls[i] = [n |-> i,
                                 sequence |-> Compose(transformers, sequences[i]),
                                 force |-> force, callback |-> "progress"]
           /\ executeCalls[i].sequence # sequences[i]
    /\ Len(sequences) = 0 =>
           /\ transformCalls = <<>> /\ executeCalls = <<>>
           /\ bar = 0 /\ raised = NoExc
           /\ pc \in {"for", "done"}

C16_Witness ==
    /\ pc = "execute" /\ idx = 2 /\ force /\ sequences[2] = 1
    /\ executeCalls[2].sequence = 3 /\ transformCalls = <<1, 2>>

\* C17: the finished counter is the number of sequences whose execute has
\* returned or whose failure was swallowed (it is brought up to date by the
\* push() that follows at once, so it is one behind exactly while that push is
\* pending); it never exceeds N; the last value sent to the progress bar lies
\* in [finished, finished + 1] and in [0, N].
C17_ProgressInvariant ==
    /\ finished = completed - (IF pc = "push" THEN 1 ELSE 0)
    /\ completed <= Len(sequences)
    /\ finished <= Len(sequences)
    /\ finished * Scale <= bar /\ bar <= (finished + 1) * Scale
    /\ 0 <= bar /\ bar <= Len(sequences) * Scale

C17_Witness ==
    /\ pc = "execute" /\ Len(sequences) = 3 /\ finished = 2 /\ completed = 2
    /\ lastCb = Scale + 1 /\ bar = 3 * Scale

\* C18: a step never lowers the value shown by the progress bar, unless it
\* is a callback with a value below that of the callback before it in the same
\* execute call; so a run whose callbacks are non-decreasing within each
\* execute reports non-decreasing values, across sequences and across
\* swallowed failures too.
C18_ProgressMonotone ==
    [][(lastCb = NoCb \/ lastCb' = NoCb \/ lastCb' >= lastCb) => bar' >= bar]_vars

C18_Witness ==
    /\ persist /\ pc = "execute" /\ finished = 2 /\ logFailures = 1
    /\ lastCb = 1 /\ bar = 2 * Scale + 1

\* C19: an error of storage while the log of a tracker failure is opened or
\* written ends the loop there and is what the caller gets, for persist=true
\* too: no later sequence is attempted and the unit of the failed sequence is
\* not counted.
C19_LogErrorsFatal ==
    LogError(exc) =>
        /\ pc = "done"
        /\ raised = exc
        /\ exc.at = idx /\ te.at = idx
        /\ transformCalls = UpTo(idx)
        /\ ExecutedNumbers = UpTo(idx)
        /\ finished = idx - 1 /\ completed = idx - 1
        /\ bar <= idx * Scale
        /\ ~flog.open

C19_Witness ==
    /\ pc = "done" /\ persist /\ Len(sequences) = 3 /\ idx = 2
    /\ raised = OtherError("write", 2) /\ finished = 1

\* C20: with persist=false, when a tracker failure that carries a log leaves
\* the loop, its captured output has been written under the failure's tracker
\* and the handle has been released.
C20_LogWrittenBeforeAbort ==
    (~persist /\ pc = "done" /\ raised.kind = "TrackerException"
              /\ raised.log # NoLog) =>
        /\ logs = [name |-> raised.tracker, content |-> raised.log]
        /\ logCalls = 1 /\ closes = 1
        /\ ~flog.open

C20_Witness ==
    /\ ~persist /\ pc = "done" /\ raised.kind = "TrackerException"
    /\ raised.log = "outA" /\ raised.at = 3 /\ logs.content = "outA"

====
